---- MODULE Spec2Model ----
(***************************************************************************)
(* A model of the yt-dlp metadata harvester: the cookie rotation manager   *)
(* (core/cookie_manager.py), the single-video fetch with its retry loop    *)
(* (core/yt_dlp_fetcher.py), the caption helper (utils/utils.py) and the   *)
(* resumable batch loop with progress and shard files (main_yt_dlp.py).    *)
(***************************************************************************)
EXTENDS Integers, Sequences, FiniteSets, TLC

(***************************************************************************)
(* Program constants.                                                      *)
(***************************************************************************)
DATA_FILE_SIZE == 500

batch_size == 20

UploadInterval == 150

\* None, and every falsy value the code only tests for truth (lcpt, a cookie).
None == 0

(***************************************************************************)
(* Bounds of the model.                                                    *)
(***************************************************************************)
\* cookie files found in the cookies directory: 0..MaxCookies
MaxCookies == 2

\* videos 1..MaxFaulty are the ones the extraction capability may fail on
MaxFaulty == 1

\* processes started one after the other on the same disk
MaxRuns == 2

\* readings of time.time() are capped at Epoch + MaxElapsed
MaxElapsed == 302

\* cookie files of a manager that is called on its own: 0..ManagerCookies
ManagerCookies == 3

\* calls made one after the other on such a manager
MaxCalls == 6

\* threads that call rotate_to_next at the same time: 1..MaxThreads
MaxThreads == 3

\* formats in the list extract_info returns: 0..MaxFormats
MaxFormats == 5

(***************************************************************************)
(* Text: an error message is a sequence of characters.                     *)
(***************************************************************************)
Upper == <<"A","B","C","D","E","F","G","H","I","J","K","L","M","N","O","P","Q","R","S","T","U","V","W","X","Y","Z">>

LowerOf == <<"a","b","c","d","e","f","g","h","i","j","k","l","m","n","o","p","q","r","s","t","u","v","w","x","y","z">>

Digits == <<"0","1","2","3","4","5","6","7","8","9">>

IndexIn(c, seq) == CHOOSE k \in 1..Len(seq) : seq[k] = c

IsIn(c, seq) == \E k \in 1..Len(seq) : seq[k] = c

\* str.lower(), one character
LowerChar(c) == IF IsIn(c, Upper) THEN LowerOf[IndexIn(c, Upper)] ELSE c

\* str.lower()
Lower(s) == [i \in 1..Len(s) |-> LowerChar(s[i])]

\* kw in s
Contains(s, kw) ==
  \E i \in 1..(Len(s) - Len(kw) + 1) : SubSeq(s, i, i + Len(kw) - 1) = kw

\* any(indicator in s for indicator in indicators)
AnyIn(indicators, s) == \E k \in 1..Len(indicators) : Contains(s, indicators[k])

unavailable_indicators ==
  << <<"v","i","d","e","o"," ","u","n","a","v","a","i","l","a","b","l","e">>,
     <<"t","h","i","s"," ","v","i","d","e","o"," ","i","s"," ","n","o"," ","l","o","n","g","e","r"," ","a","v","a","i","l","a","b","l","e">>,
     <<"c","o","p","y","r","i","g","h","t"," ","c","l","a","i","m">>,
     <<"c","o","p","y","r","i","g","h","t">>,
     <<"u","n","a","v","a","i","l","a","b","l","e">>,
     <<"p","r","i","v","a","t","e"," ","v","i","d","e","o">>,
     <<"t","h","i","s"," ","v","i","d","e","o"," ","i","s"," ","p","r","i","v","a","t","e">>,
     <<"v","i","d","e","o"," ","i","s"," ","p","r","i","v","a","t","e">>,
     <<"n","o","t"," ","a","v","a","i","l","a","b","l","e">>,
     <<"b","l","o","c","k","e","d"," ","i","n"," ","y","o","u","r"," ","c","o","u","n","t","r","y">> >>

timeout_indicators ==
  << <<"t","i","m","e","o","u","t">>,
     <<"t","i","m","e","d"," ","o","u","t">>,
     <<"c","o","n","n","e","c","t","i","o","n"," ","t","i","m","e","d"," ","o","u","t">>,
     <<"s","o","c","k","e","t"," ","t","i","m","e","o","u","t">> >>

block_indicators ==
  << <<"4","2","9">>,
     <<"4","0","3">>,
     <<"b","l","o","c","k","e","d">>,
     <<"r","a","t","e"," ","l","i","m","i","t">>,
     <<"t","o","o"," ","m","a","n","y"," ","r","e","q","u","e","s","t","s">>,
     <<"u","n","a","b","l","e"," ","t","o"," ","e","x","t","r","a","c","t">>,
     <<"p","r","i","v","a","t","e"," ","v","i","d","e","o">>,
     <<"v","i","d","e","o"," ","u","n","a","v","a","i","l","a","b","l","e">>,
     <<"s","i","g","n"," ","i","n"," ","t","o"," ","c","o","n","f","i","r","m"," ","y","o","u","r"," ","a","g","e">>,
     <<"h","t","t","p"," ","e","r","r","o","r">>,
     <<"u","n","a","b","l","e"," ","t","o"," ","d","o","w","n","l","o","a","d">>,
     <<"e","x","t","r","a","c","t","o","r"," ","e","r","r","o","r">> >>

(***************************************************************************)
(* CookieRotationManager.is_blocked_error                                  *)
(***************************************************************************)
IsDigit(c) == IsIn(c, Digits)

DigitVal(c) == IndexIn(c, Digits) - 1

\* positions where re.search(r'(\d{3})', s) can match
CodeStarts(s) ==
  {i \in 1..(Len(s) - 2) : IsDigit(s[i]) /\ IsDigit(s[i+1]) /\ IsDigit(s[i+2])}

Min(S) == CHOOSE x \in S : \A y \in S : x <= y

\* int(http_code_match.group(1)): the leftmost match
FirstCode(s) ==
  LET i == Min(CodeStarts(s))
  IN  100 * DigitVal(s[i]) + 10 * DigitVal(s[i+1]) + DigitVal(s[i+2])

BlockTypes == {"ExtractorError", "DownloadError", "UnsupportedError"}

BlockCodes == {429, 403, 503}

is_blocked_error(error) ==
  LET error_str == Lower(error.msg)
  IN  \/ error.type \in BlockTypes /\ AnyIn(block_indicators, error_str)
      \/ CodeStarts(error_str) # {} /\ FirstCode(error_str) \in BlockCodes

(***************************************************************************)
(* The error classification of fetch_from_ytdlp's except block.            *)
(***************************************************************************)
is_unavailable(e) == AnyIn(unavailable_indicators, Lower(e.msg))

is_timeout(e) == AnyIn(timeout_indicators, Lower(e.msg))

(***************************************************************************)
(* The errors the environment raises in the model.                         *)
(***************************************************************************)
\* raised by ydl.extract_info
ExtractErrors ==
  << [type |-> "DownloadError", msg |-> <<"E","R","R","O","R",":"," ","V","i","d","e","o"," ","u","n","a","v","a","i","l","a","b","l","e">>],
     [type |-> "DownloadError", msg |-> <<"H","T","T","P"," ","E","r","r","o","r"," ","4","0","3",":"," ","F","o","r","b","i","d","d","e","n">>],
     [type |-> "DownloadError", msg |-> <<"P","r","i","v","a","t","e"," ","v","i","d","e","o"," ","4","0","3"," ","t","i","m","e","d"," ","o","u","t">>],
     [type |-> "TimeoutError", msg |-> <<"C","o","n","n","e","c","t","i","o","n"," ","t","i","m","e","d"," ","o","u","t">>],
     [type |-> "ExtractorError", msg |-> <<"U","n","a","b","l","e"," ","t","o"," ","e","x","t","r","a","c","t">>],
     [type |-> "OSError", msg |-> <<"E","r","r","n","o"," ","5","0","3">>],
     [type |-> "ValueError", msg |-> <<"R","a","t","e"," ","l","i","m","i","t">>],
     [type |-> "KeyError", msg |-> <<"i","d">>],
     [type |-> "HTTPError", msg |-> <<"p","r","o","x","y"," ","5","0","2",":"," ","H","T","T","P"," ","E","r","r","o","r"," ","4","2","9">>] >>

\* raised out of _download_subtitles_via_api by _parse_json3_to_text, which
\* guards only open() and json.load(): a caption file whose JSON is a list,
\* and one whose 404th segment has a number for its text
CaptionErrors ==
  << [type |-> "AttributeError", msg |-> <<"'","l","i","s","t","'"," ","o","b","j","e","c","t"," ","h","a","s"," ","n","o"," ","a","t","t","r","i","b","u","t","e"," ","'","g","e","t","'">>],
     [type |-> "TypeError", msg |-> <<"s","e","q","u","e","n","c","e"," ","i","t","e","m"," ","4","0","3",":"," ","e","x","p","e","c","t","e","d"," ","s","t","r"," ","i","n","s","t","a","n","c","e",","," ","i","n","t"," ","f","o","u","n","d">>] >>

(***************************************************************************)
(* Values.                                                                 *)
(***************************************************************************)
Max(S) == CHOOSE x \in S : \A y \in S : y <= x

\* range(a, b + 1) as a list
Range(a, b) == [k \in 1..(b - a + 1) |-> a + k - 1]

\* the elements of a list
Elems(seq) == {seq[k] : k \in 1..Len(seq)}

\* sorted(list(S))
RECURSIVE SortedIn(_, _, _)
SortedIn(S, lo, hi) ==
  IF S = {} THEN <<>>
  ELSE IF lo = hi THEN <<lo>>
  ELSE LET mid == (lo + hi) \div 2
       IN  SortedIn({x \in S : x <= mid}, lo, mid)
             \o SortedIn({x \in S : x > mid}, mid + 1, hi)

Sorted(S) == IF S = {} THEN <<>> ELSE SortedIn(S, Min(S), Max(S))

\* a dict: a function on the keys it holds
EmptyDict == [k \in {} |-> None]

\* d[key] = value
Put(d, key, value) ==
  [k \in DOMAIN d \cup {key} |-> IF k = key THEN value ELSE d[k]]

\* os.remove(p), on the directory
Remove(d, key) == [k \in DOMAIN d \ {key} |-> d[k]]

languages == <<"en", "ru">>

\* the videos whose extraction the environment may fail or leave incomplete
Faulty == 1..MaxFaulty

\* the first value time.time() returns
Epoch == 1000

(***************************************************************************)
(* CookieRotationManager                                                   *)
(***************************************************************************)
\* _load_cookie_files: the sorted *.txt files of the directory, n of them
LoadCookieFiles(n) == Range(1, n)

\* get_current_cookie (current_index counts from 0)
get_current_cookie(files, index) ==
  IF files = <<>> THEN None ELSE files[index + 1]

\* the index not stored
NextIndex_Stays(files, index) == index

\* back to the first file
NextIndex_First(files, index) == 0

\* the index rotate_to_next leaves
NextIndex(files, index) ==
  IF files = <<>> THEN index ELSE (index + 1) % Len(files)

\* the value rotate_to_next returns
rotate_to_next(files, index) ==
  IF files = <<>> THEN None ELSE files[NextIndex(files, index) + 1]

(***************************************************************************)
(* fetch_from_ytdlp: the pieces of its control flow                        *)
(***************************************************************************)
\* two attempts at the least
MaxAttempts_TwoAtLeast(files) == Max({2, Len(files)})

\* one attempt too many
MaxAttempts_OneMore(files) == Len(files) + 1

\* two attempts for every file
MaxAttempts_Twice(files) == 2 * Max({1, Len(files)})

\* line 22
MaxAttempts(files) ==
  IF files # <<>> THEN (IF Len(files) > 1 THEN Len(files) ELSE 1) ELSE 1

\* the timeout and blocking tests made before the unavailable test
Rotates_NoPrecedence(e, att, max) ==
  /\ is_timeout(e) \/ is_blocked_error(e)
  /\ att < max - 1

\* the timeout and blocking tests left out
Rotates_AnyError(e, att, max) ==
  /\ ~ is_unavailable(e)
  /\ att < max - 1

\* every error rotates while attempts are left
Rotates_Always(e, att, max) == att < max - 1

\* lines 139-165: the except block calls rotate_to_next
Rotates(e, att, max) ==
  /\ ~ is_unavailable(e)
  /\ is_timeout(e) \/ is_blocked_error(e)
  /\ att < max - 1

\* lines 139-169: the except block goes on to the next attempt
Retries(e, att, max, files, index) ==
  /\ Rotates(e, att, max)
  /\ rotate_to_next(files, index) # None

\* the except block returning what the attempt has built
ExceptResult_Partial(res) == res

\* what the except block returns when it returns (lines 153, 174)
ExceptResult(res) == EmptyDict

\* if data: (a dict is true when it holds a key)
Truthy(d) == DOMAIN d # {}

(***************************************************************************)
(* Files: sequence.json, progress.json, the shards data_<date>[_<n>].json  *)
(***************************************************************************)
\* sorted(sequence.keys()): the groups by ascending timestamp
RECURSIVE SortGroups(_)
SortGroups(groups) ==
  IF groups = {} THEN <<>>
  ELSE LET g == CHOOSE x \in groups : \A y \in groups : x.ts <= y.ts
       IN  <<g>> \o SortGroups(groups \ {g})

RECURSIVE Extend(_)
Extend(gs) == IF gs = <<>> THEN <<>> ELSE Head(gs).ids \o Extend(Tail(gs))

\* the groups taken as the file lists them
load_sequence_Listed(file) ==
  IF ~ file.exists THEN <<>> ELSE Extend(file.groups)

\* load_sequence
load_sequence(file) ==
  IF ~ file.exists THEN <<>> ELSE Extend(SortGroups(Elems(file.groups)))

\* [vid for vid in all_video_ids if vid not in processed_ids]
Pending(ids, done) == SelectSeq(ids, LAMBDA vid : vid \notin done)

NoProgressFile == [exists |-> FALSE, processed_video_ids |-> <<>>, count |-> 0]

\* the payload save_progress dumps
ProgressPayload(ids) ==
  [exists |-> TRUE, processed_video_ids |-> Sorted(ids), count |-> Cardinality(ids)]

\* the file ignored
load_progress_Fresh(file) == {}

\* load_progress
load_progress(file) ==
  IF ~ file.exists THEN {} ELSE Elems(file.processed_video_ids)

\* a shard: the records of the videos of the sequence under their ids (recs),
\* the number of records under other ids (old), and whether it has _metadata
NewShard == [meta |-> TRUE, old |-> 0, recs |-> EmptyDict]

\* sum(1 for k, v in data.items() if k != "_metadata" and isinstance(v, dict))
VideoCount(shard) == shard.old + Cardinality(DOMAIN shard.recs)

\* data_<day>.json (n = 1) or data_<day>_<n>.json
DataFile(day, n) == [day |-> day, n |-> n]

\* the order of sorted() on the file names
NameLess(a, b) == a.day < b.day \/ (a.day = b.day /\ a.n < b.n)

\* existing_files[-1]
LastFile(names) == CHOOSE a \in names : \A b \in names : b = a \/ NameLess(b, a)

\* lines 195-208: data_<today>.json, else the first free data_<today>_<n>.json
NewDataFile(tmp) ==
  DataFile(1, Min({k \in 1..(Cardinality(DOMAIN tmp) + 1) : DataFile(1, k) \notin DOMAIN tmp}))

\* get_next_data_file_path: raised (the listing failed), else the path and
\* what it leaves in TMP_DIR and in the remote store
\* the last file reused whatever it holds
HasRoom_Always(video_count) == TRUE

\* line 173: the last file is used again
HasRoom(video_count) == video_count < DATA_FILE_SIZE

get_next_data_file_path(tmp, rem, listOk, wgetOk, uploadOk) ==
  IF ~ listOk
  THEN [raised |-> TRUE, path |-> DataFile(0, 0), tmp |-> tmp, rem |-> rem]
  ELSE IF DOMAIN rem = {}
  THEN [raised |-> FALSE, path |-> NewDataFile(tmp), tmp |-> tmp, rem |-> rem]
  ELSE LET last_file == LastFile(DOMAIN rem)
           \* wget -P TMP_DIR: keeps a file that is already there
           got == IF last_file \notin DOMAIN tmp /\ wgetOk
                  THEN Put(tmp, last_file, rem[last_file]) ELSE tmp
       IN  IF last_file \notin DOMAIN got
           THEN [raised |-> FALSE, path |-> NewDataFile(got), tmp |-> got, rem |-> rem]
           ELSE IF HasRoom(VideoCount(got[last_file]))
           THEN [raised |-> FALSE, path |-> last_file, tmp |-> got, rem |-> rem]
           ELSE IF uploadOk
           THEN [raised |-> FALSE, path |-> NewDataFile(Remove(got, last_file)),
                 tmp |-> Remove(got, last_file),
                 rem |-> Put(rem, last_file, got[last_file])]
           ELSE [raised |-> FALSE, path |-> NewDataFile(got), tmp |-> got, rem |-> rem]

\* load_data_file
load_data_file(tmp, path) == IF path \in DOMAIN tmp THEN tmp[path] ELSE NewShard

\* lines 242-247 of save_data_file: the dict with _metadata, as dumped
Dumped(shard) == [shard EXCEPT !.meta = TRUE]

\* the gate without the interval
UploadDue_NoInterval(t, last) == last # None

\* lines 106-107: the upload gate of save_progress
UploadDue(t, last) == last # None /\ t - last > UploadInterval


(***************************************************************************)
(* fetch_from_ytdlp, lines 89-117: the formats of the record               *)
(***************************************************************************)
\* d.get(key, default)
Get(d, key, default) == IF key \in DOMAIN d THEN d[key] ELSE default

\* lines 96-97: the format is a storyboard
IsStoryboard(fmt) == Get(fmt, "format_note", "") = "storyboard"

\* line 105: c and c != 'none' (the empty string is false)
HasCodec(c) == c # "" /\ c # "none"

\* the keys of clean_fmt (lines 101-114)
CleanKeys ==
  {"vcodec", "acodec", "format_id", "fps", "ext", "video_ext", "audio_ext",
   "resolution", "format"}

\* lines 99-114: clean_fmt, for a format that is kept
CleanFmt(fmt) == [k \in CleanKeys |-> Get(fmt, k, "none")]

\* lines 93-116: the for loop, from the n-th format on, with the list built
RECURSIVE FullVideoFormats(_, _, _)
FullVideoFormats(formats, n, full_video_formats) ==
  IF n > Len(formats) THEN full_video_formats
  ELSE LET fmt == formats[n]
       IN  IF IsStoryboard(fmt)
           THEN FullVideoFormats(formats, n + 1, full_video_formats)
           ELSE IF HasCodec(Get(fmt, "vcodec", "none")) /\ HasCodec(Get(fmt, "acodec", "none"))
           THEN FullVideoFormats(formats, n + 1, Append(full_video_formats, CleanFmt(fmt)))
           ELSE FullVideoFormats(formats, n + 1, full_video_formats)

\* the first two kept
LastTwo_First(list) == IF Len(list) <= 2 THEN list ELSE SubSeq(list, 1, 2)

\* line 117: list[-2:]
LastTwo(list) == IF Len(list) <= 2 THEN list ELSE SubSeq(list, Len(list) - 1, Len(list))

\* lines 89-117: result['formats']
FormatProjection(formats) == LastTwo(FullVideoFormats(formats, 1, <<>>))
(***************************************************************************)
(* The state.                                                              *)
(***************************************************************************)
VARIABLES
  cookie_files,          \* COOKIE_MANAGER.cookie_files
  current_index,         \* COOKIE_MANAGER.current_index
  seqFile,               \* sequence.json
  progressFile,          \* progress.json
  tmpDir,                \* the shard files in TMP_DIR, by name
  remote,                \* the shard files of the remote repository, by name
  uploads,               \* the uploads of progress.json made so far: their times
  clock,                 \* the last value time.time() returned
  lcpt,                  \* the global lcpt
  lcdt,                  \* the global lcdt
  run,                   \* the number of the running process
  pc,                    \* where main() is
  exc,                   \* the exception that left main(), if one did
  processed_ids,         \* main, process_videos: processed_ids
  current_data_file,     \* main, process_videos: current_data_file
  current_data,          \* main, process_videos: current_data
  video_ids_to_process,  \* the pending queue
  i,                     \* process_videos: the loop index
  processed_count,       \* process_videos: processed_count
  data,                  \* process_videos: what fetch_from_ytdlp returned
  attempt,               \* fetch_from_ytdlp: attempt
  max_attempts,          \* fetch_from_ytdlp: max_attempts
  result,                \* fetch_from_ytdlp: result
  info,                  \* fetch_from_ytdlp: info
  tr,                    \* the calls of the running fetch, in order (history)
  index0,                \* current_index when the running fetch began (history)
  saves,                 \* the files the running iteration, or the end of main,
                         \* has written, in order (history)
  fetched,               \* the records fetch_from_ytdlp has returned so far, to
                         \* this process and the ones before it, by video
                         \* (history)
  threads                \* the threads inside rotate_to_next, each with its locals

manager == <<cookie_files, current_index, threads>>
disk == <<progressFile, tmpDir>>
hub == <<remote, uploads>>
gate == <<clock, lcpt, lcdt>>
loop == <<processed_ids, current_data_file, current_data, video_ids_to_process,
          i, processed_count>>
fetch == <<attempt, max_attempts, result, info, tr, index0>>
history == <<saves, fetched>>
vars == <<manager, seqFile, disk, hub, gate, run, pc, exc, loop, data, fetch, history>>

NoInfo == [serial |-> 0, duration |-> 0]

\* the video the loop is at
video_id == video_ids_to_process[i + 1]

(***************************************************************************)
(* The inputs of the model.                                                *)
(***************************************************************************)
Group(ts, ids) == [ts |-> ts, ids |-> ids]

SequenceFile(groups) == [exists |-> TRUE, groups |-> groups]

NoSequenceFile == [exists |-> FALSE, groups |-> <<>>]

\* a video the sequence gains between two runs
ExtraId == MaxFaulty + 2 * batch_size + 1

\* the videos after the faulty ones: their extraction always succeeds
Healthy(from, to) == Range(MaxFaulty + from, MaxFaulty + to)

\* video 1 listed twice, the later timestamp listed first: 1, 2, 1 once sorted
SeqTwice == SequenceFile(<<Group(2, <<1>>), Group(1, <<1, MaxFaulty + 1>>)>>)

\* batch_size videos, the last of them faulty
SeqBatch ==
  SequenceFile(<<Group(2, <<1>>), Group(1, Healthy(1, batch_size - 1))>>)

\* two batches
SeqTwoBatches ==
  SequenceFile(<<Group(1, Healthy(1, batch_size)),
                 Group(2, Healthy(batch_size + 1, 2 * batch_size))>>)

\* as many videos as a shard holds
SeqShard == SequenceFile(<<Group(1, Healthy(1, DATA_FILE_SIZE))>>)

\* a video processed by an earlier run and no longer in sequence.json
GoneId == ExtraId + 1

\* sequence.json after the environment has added a video to it
Grown(file) ==
  IF file.exists /\ \A k \in 1..Len(file.groups) : file.groups[k].ts # 9
  THEN [file EXCEPT !.groups = Append(@, Group(9, <<ExtraId>>))]
  ELSE file

\* the shard a remote repository may hold when the first process starts
RemoteShard(n) == [meta |-> TRUE, old |-> n, recs |-> EmptyDict]

RemoteStore(n) == Put(EmptyDict, DataFile(0, 1), RemoteShard(n))

\* the worlds a first process may start in: sequence.json, progress.json and
\* the remote repository
Worlds ==
  ({NoSequenceFile, SequenceFile(<<>>)} \X {NoProgressFile}
     \X {EmptyDict, RemoteStore(DATA_FILE_SIZE - 1)})
  \cup ({SequenceFile(<<Group(1, <<1>>)>>)} \X {NoProgressFile}
     \X {EmptyDict, RemoteStore(DATA_FILE_SIZE - 1), RemoteStore(DATA_FILE_SIZE)})
  \cup ({SeqTwice} \X {NoProgressFile, ProgressPayload({MaxFaulty + 1, GoneId})}
     \X {EmptyDict})
  \cup ({SequenceFile(<<Group(1, <<1>>)>>)} \X {ProgressPayload({GoneId})}
     \X {EmptyDict})
  \cup ({SeqBatch, SeqTwoBatches} \X {NoProgressFile}
     \X {EmptyDict, RemoteStore(DATA_FILE_SIZE - batch_size)})

\* what time.time() may return after it returned c
Times(c) ==
  {c} \cup {t \in {c + UploadInterval, c + UploadInterval + 1} : t <= Epoch + MaxElapsed}

\* ydl.extract_info returns a record: its duration (0: none)
Durations(v) == IF v \in Faulty THEN {0, 125} ELSE {125}

\* _download_subtitles_via_api returns: per language no file ("none"), a file
\* that gives no text ("empty"), or text ("text")
CaptionMaps(v) ==
  IF v \in Faulty THEN [Elems(languages) -> {"none", "empty", "text"}]
  ELSE {[l \in Elems(languages) |-> "text"]}

(***************************************************************************)
(* Init: a process starts on a disk no run has written yet.                *)
(***************************************************************************)
Locals ==
  /\ processed_ids = {}
  /\ current_data_file = DataFile(0, 0)
  /\ current_data = NewShard
  /\ video_ids_to_process = <<>>
  /\ i = 0
  /\ processed_count = 0
  /\ data = EmptyDict
  /\ attempt = 0
  /\ max_attempts = 0
  /\ result = EmptyDict
  /\ info = NoInfo
  /\ tr = <<>>
  /\ index0 = 0
  /\ saves = <<>>
  /\ fetched = EmptyDict

Init ==
  /\ cookie_files \in {LoadCookieFiles(n) : n \in 0..MaxCookies}
  /\ current_index = 0
  /\ threads = <<>>
  /\ \E w \in Worlds : seqFile = w[1] /\ progressFile = w[2] /\ remote = w[3]
  /\ tmpDir = EmptyDict
  /\ uploads = <<>>
  /\ clock = Epoch
  /\ lcpt = None
  /\ lcdt = None
  /\ run = 1
  /\ pc = "load_progress"
  /\ exc = "none"
  /\ Locals


\* a process that has a whole shard of videos to fetch, with no cookie
\* files, started when the time the model follows has elapsed
InitLong ==
  /\ cookie_files = LoadCookieFiles(0)
  /\ current_index = 0
  /\ threads = <<>>
  /\ seqFile = SeqShard
  /\ progressFile = NoProgressFile
  /\ remote = RemoteStore(DATA_FILE_SIZE - batch_size)
  /\ tmpDir = EmptyDict
  /\ uploads = <<>>
  /\ clock = Epoch + MaxElapsed
  /\ lcpt = None
  /\ lcdt = None
  /\ run = 1
  /\ pc = "load_progress"
  /\ exc = "none"
  /\ Locals


(***************************************************************************)
(* The formats extract_info may return.                                    *)
(***************************************************************************)
\* the format_id of the n-th format of a list
FormatIds == <<"f1", "f2", "f3", "f4", "f5", "f6", "f7", "f8">>

\* a format of yt-dlp with video and audio: it has keys clean_fmt does not
\* keep (url) and lacks some it fills in (video_ext, audio_ext, format)
FullFormat(n) ==
  [k \in {"format_id", "format_note", "vcodec", "acodec", "fps", "ext",
          "resolution", "url"} |->
     CASE k = "format_id" -> FormatIds[n]
       [] k = "format_note" -> "720p"
       [] k = "vcodec" -> "avc1"
       [] k = "acodec" -> "mp4a"
       [] k = "fps" -> "30"
       [] k = "ext" -> "mp4"
       [] k = "resolution" -> "1280x720"
       [] OTHER -> "https"]

\* a format that has the keys of clean_fmt and no other
BareFormat(n) ==
  [k \in CleanKeys |->
     CASE k = "format_id" -> FormatIds[n]
       [] k = "vcodec" -> "vp9"
       [] k = "acodec" -> "opus"
       [] OTHER -> "webm"]

\* a storyboard that names codecs
Storyboard(n) == [FullFormat(n) EXCEPT !["format_note"] = "storyboard"]

VideoOnly(n) == [FullFormat(n) EXCEPT !["acodec"] = "none"]

\* no vcodec key at all
AudioOnly(n) ==
  [k \in DOMAIN FullFormat(n) \ {"vcodec"} |-> FullFormat(n)[k]]

\* a codec that is there and empty
EmptyCodec(n) == [FullFormat(n) EXCEPT !["vcodec"] = ""]

FormatsAt(n) ==
  {FullFormat(n), BareFormat(n), Storyboard(n), VideoOnly(n), AudioOnly(n),
   EmptyCodec(n)}

\* the lists of len formats
RECURSIVE FormatListsOf(_)
FormatListsOf(len) ==
  IF len = 0 THEN {<<>>}
  ELSE {Append(l, fmt) : l \in FormatListsOf(len - 1), fmt \in FormatsAt(len)}

\* the lists info['formats'] is drawn from: up to MaxFormats formats
FormatLists == UNION {FormatListsOf(len) : len \in 0..MaxFormats}
(***************************************************************************)
(* save_progress and save_data_file                                        *)
(***************************************************************************)
\* save_progress(ids): the file is written, then the upload gate
save_progress(ids) ==
  /\ progressFile' = ProgressPayload(ids)
  /\ \E t \in Times(clock) :
       /\ clock' = t
       /\ IF UploadDue(t, lcpt)
          THEN \E uploaded \in BOOLEAN :
                 IF uploaded
                 THEN uploads' = Append(uploads, t) /\ lcpt' = t
                 ELSE \* upload_file raised: caught at line 124
                      UNCHANGED <<uploads, lcpt>>
          ELSE /\ lcpt' = IF lcpt = None THEN t ELSE lcpt
               /\ UNCHANGED uploads

\* save_data_file(current_data_file, current_data): the file is written; the
\* test of lcdt at line 253 reads a local name the function assigns at 263
\* and 269 and never declares global, so it raises UnboundLocalError, caught
\* at line 273, and nothing of lines 254-271 runs
save_data_file ==
  /\ current_data' = Dumped(current_data)
  /\ tmpDir' = Put(tmpDir, current_data_file, Dumped(current_data))

(***************************************************************************)
(* main                                                                    *)
(***************************************************************************)
\* line 359
LoadProgress ==
  /\ pc = "load_progress"
  /\ UNCHANGED history
  /\ processed_ids' = load_progress(progressFile)
  /\ pc' = "open_shard"
  /\ UNCHANGED <<manager, seqFile, disk, hub, gate, run, exc, current_data_file,
                 current_data, video_ids_to_process, i, processed_count, data, fetch>>

\* lines 363-364
OpenShard ==
  /\ pc = "open_shard"
  /\ UNCHANGED history
  /\ \E listOk, wgetOk, uploadOk \in BOOLEAN :
       LET r == get_next_data_file_path(tmpDir, remote, listOk, wgetOk, uploadOk)
       IN  IF r.raised
           THEN /\ pc' = "crashed"
                /\ exc' = "list_repo_files"
                /\ UNCHANGED <<tmpDir, remote, current_data_file, current_data>>
           ELSE /\ pc' = "plan"
                /\ tmpDir' = r.tmp
                /\ remote' = r.rem
                /\ current_data_file' = r.path
                /\ current_data' = load_data_file(r.tmp, r.path)
                /\ UNCHANGED exc
  /\ UNCHANGED <<manager, seqFile, progressFile, uploads, gate, run, processed_ids,
                 video_ids_to_process, i, processed_count, data, fetch>>

\* lines 368-399, up to the call of process_videos
Plan ==
  /\ pc = "plan"
  /\ UNCHANGED history
  /\ IF ~ seqFile.exists
     THEN \* line 400
          /\ pc' = "crashed"
          /\ exc' = "raise"
          /\ UNCHANGED video_ids_to_process
     ELSE LET all_video_ids == load_sequence(seqFile)
              todo == Pending(all_video_ids, processed_ids)
          IN  /\ UNCHANGED exc
              /\ IF all_video_ids # <<>> /\ todo # <<>>
                 THEN pc' = "loop" /\ video_ids_to_process' = todo
                 ELSE pc' = "done" /\ UNCHANGED video_ids_to_process
  /\ UNCHANGED <<manager, seqFile, disk, hub, gate, run, processed_ids,
                 current_data_file, current_data, i, processed_count, data, fetch>>

\* lines 385-389
FinishData ==
  /\ pc = "finish"
  /\ saves' = IF VideoCount(current_data) > 0 THEN Append(saves, "data") ELSE saves
  /\ UNCHANGED fetched
  /\ IF VideoCount(current_data) > 0
     THEN save_data_file
     ELSE UNCHANGED <<current_data, tmpDir>>
  /\ pc' = "finish_progress"
  /\ UNCHANGED <<manager, seqFile, progressFile, hub, gate, run, exc, processed_ids,
                 current_data_file, video_ids_to_process, i, processed_count, data,
                 fetch>>

\* lines 392-393
FinishProgress ==
  /\ pc = "finish_progress"
  /\ saves' = Append(saves, "progress")
  /\ UNCHANGED fetched
  /\ save_progress(processed_ids)
  /\ pc' = "done"
  /\ UNCHANGED <<manager, seqFile, tmpDir, remote, lcdt, run, exc, loop, data, fetch>>

(***************************************************************************)
(* process_videos                                                          *)
(***************************************************************************)
\* lines 299-307, and lines 12-22 of fetch_from_ytdlp
BeginFetch ==
  /\ pc = "loop"
  /\ saves' = <<>>
  /\ UNCHANGED fetched
  /\ i < Len(video_ids_to_process)
  /\ result' = EmptyDict
  /\ attempt' = 0
  /\ max_attempts' = MaxAttempts(cookie_files)
  /\ tr' = <<>>
  /\ index0' = current_index
  /\ pc' = "extract"
  /\ UNCHANGED <<manager, seqFile, disk, hub, gate, run, exc, loop, data, info>>

\* line 352: the queue is exhausted
EndLoop ==
  /\ pc = "loop"
  /\ saves' = <<>>
  /\ UNCHANGED fetched
  /\ i = Len(video_ids_to_process)
  /\ pc' = "finish"
  /\ UNCHANGED <<manager, seqFile, disk, hub, gate, run, exc, loop, data, fetch>>

\* the result stored whether empty or not
Stored_Always(shard, vid, d) == [shard EXCEPT !.recs = Put(@, vid, d)]

\* lines 309-311: the shard after a fetch of vid that returned d
Stored(shard, vid, d) ==
  IF Truthy(d) THEN [shard EXCEPT !.recs = Put(@, vid, d)] ELSE shard

\* lines 309-327
Store ==
  /\ pc = "returned"
  /\ fetched' = IF Truthy(data) THEN Put(fetched, video_id, data) ELSE fetched
  /\ UNCHANGED saves
  /\ current_data' = Stored(current_data, video_id, data)
  /\ processed_ids' = processed_ids \cup {video_id}
  /\ processed_count' = processed_count + 1
  /\ pc' = "checkpoint"
  \* the locals of the fetch that returned are dead
  /\ data' = EmptyDict /\ result' = EmptyDict /\ info' = NoInfo
  /\ attempt' = 0 /\ max_attempts' = 0 /\ tr' = <<>> /\ index0' = 0
  /\ UNCHANGED <<manager, seqFile, disk, hub, gate, run, exc, current_data_file,
                 video_ids_to_process, i>>

\* lines 330-332
CheckpointProgress ==
  /\ pc = "checkpoint"
  /\ saves' = Append(saves, "progress")
  /\ UNCHANGED fetched
  /\ processed_count % batch_size = 0
  /\ save_progress(processed_ids)
  /\ pc' = "checkpoint_data"
  /\ UNCHANGED <<manager, seqFile, tmpDir, remote, lcdt, run, exc, loop, data, fetch>>

\* line 330, the condition false
NoCheckpoint ==
  /\ pc = "checkpoint"
  /\ UNCHANGED history
  /\ processed_count % batch_size # 0
  /\ pc' = "size_check"
  /\ UNCHANGED <<manager, seqFile, disk, hub, gate, run, exc, loop, data, fetch>>

\* lines 335-337
CheckpointData ==
  /\ pc = "checkpoint_data"
  /\ saves' = Append(saves, "data")
  /\ UNCHANGED fetched
  /\ save_data_file
  /\ pc' = "size_check"
  /\ UNCHANGED <<manager, seqFile, progressFile, hub, gate, run, exc, processed_ids,
                 current_data_file, video_ids_to_process, i, processed_count, data,
                 fetch>>

\* the limit tested with >
AtLimit_Above(video_count_in_file) == video_count_in_file > DATA_FILE_SIZE

\* line 341
AtLimit(video_count_in_file) == video_count_in_file >= DATA_FILE_SIZE

\* lines 340-341, the condition false: on to the next video
SizeBelowLimit ==
  /\ pc = "size_check"
  /\ UNCHANGED history
  /\ ~ AtLimit(VideoCount(current_data))
  /\ i' = i + 1
  /\ pc' = "loop"
  /\ UNCHANGED <<manager, seqFile, disk, hub, gate, run, exc, processed_ids,
                 current_data_file, current_data, video_ids_to_process,
                 processed_count, data, fetch>>

\* the shard saved at the limit whether the checkpoint saved it or not
SavesAtLimit_Always(count) == TRUE

\* line 343: the checkpoint of this iteration has not saved the shard
SavesAtLimit(count) == count % batch_size # 0

\* lines 340-345
SizeLimit ==
  /\ pc = "size_check"
  /\ AtLimit(VideoCount(current_data))
  /\ IF SavesAtLimit(processed_count)
     THEN save_data_file /\ saves' = Append(saves, "data")
     ELSE UNCHANGED <<current_data, tmpDir, saves>>
  /\ UNCHANGED fetched
  /\ pc' = "switch"
  /\ UNCHANGED <<manager, seqFile, progressFile, hub, gate, run, exc, processed_ids,
                 current_data_file, video_ids_to_process, i, processed_count, data,
                 fetch>>

\* lines 348-350
SwitchShard ==
  /\ pc = "switch"
  /\ UNCHANGED history
  /\ \E listOk, wgetOk, uploadOk \in BOOLEAN :
       LET r == get_next_data_file_path(tmpDir, remote, listOk, wgetOk, uploadOk)
       IN  IF r.raised
           THEN \* out of process_videos and out of main
                /\ pc' = "crashed"
                /\ exc' = "list_repo_files"
                /\ UNCHANGED <<tmpDir, remote, current_data_file, current_data, i>>
           ELSE /\ pc' = "loop"
                /\ tmpDir' = r.tmp
                /\ remote' = r.rem
                /\ current_data_file' = r.path
                /\ current_data' = load_data_file(r.tmp, r.path)
                /\ i' = i + 1
                /\ UNCHANGED exc
  /\ UNCHANGED <<manager, seqFile, progressFile, uploads, gate, run, processed_ids,
                 video_ids_to_process, processed_count, data, fetch>>

(***************************************************************************)
(* fetch_from_ytdlp                                                        *)
(***************************************************************************)
\* a call of the extraction capability: which (op), in which attempt, with
\* which cookie, how it ended (out), the error it raised (err, its place in
\* ExtractErrors or CaptionErrors) and the languages it gave text for (kept)
Call(op, cookie, out, err, kept) ==
  [op |-> op, attempt |-> attempt, cookie |-> cookie, out |-> out, err |-> err,
   kept |-> kept]

\* lines 134-174: the except block, entered with error e and result res
Except(e, res) ==
  /\ current_index' =
       IF Rotates(e, attempt, max_attempts)
       THEN NextIndex(cookie_files, current_index) ELSE current_index
  /\ IF Retries(e, attempt, max_attempts, cookie_files, current_index)
     THEN \* line 169: continue
          /\ attempt' = attempt + 1
          /\ result' = res
          /\ pc' = "extract"
          /\ UNCHANGED data
     ELSE \* lines 153, 174: return {}
          /\ data' = ExceptResult(res)
          /\ result' = res
          /\ pc' = "returned"
          /\ UNCHANGED attempt

\* lines 26-51: extract_info returns a record
ExtractReturns ==
  /\ pc = "extract"
  /\ UNCHANGED history
  /\ \E d \in Durations(video_id) :
       info' = [serial |-> attempt + 1, duration |-> d]
  /\ result' = Put(Put(result, "webpage_url", attempt + 1), "age_limit", attempt + 1)
  /\ tr' = Append(tr, Call("extract_info",
                           get_current_cookie(cookie_files, current_index), "info", 0, {}))
  /\ pc' = "captions"
  /\ UNCHANGED <<manager, seqFile, disk, hub, gate, run, exc, loop, data, attempt,
                 max_attempts, index0>>

\* lines 26-47: extract_info returns nothing
ExtractNothing ==
  /\ pc = "extract"
  /\ UNCHANGED history
  /\ video_id \in Faulty
  /\ tr' = Append(tr, Call("extract_info",
                           get_current_cookie(cookie_files, current_index), "none", 0, {}))
  /\ data' = EmptyDict
  /\ pc' = "returned"
  /\ UNCHANGED <<manager, seqFile, disk, hub, gate, run, exc, loop, attempt,
                 max_attempts, result, info, index0>>

\* lines 26-42, 134-174: extract_info raises
ExtractRaises ==
  /\ pc = "extract"
  /\ UNCHANGED history
  /\ video_id \in Faulty
  /\ \E k \in 1..Len(ExtractErrors) :
       /\ tr' = Append(tr, Call("extract_info",
                                get_current_cookie(cookie_files, current_index),
                                "raise", k, {}))
       /\ Except(ExtractErrors[k], result)
  /\ UNCHANGED <<cookie_files, threads, seqFile, disk, hub, gate, run, exc, loop,
                 max_attempts, info, index0>>

\* lines 57-58: the caption maps are reset before the sub-call
CaptionsReset(res) == Put(Put(res, "subtitles", {}), "automatic_captions", {})

\* lines 67-76: the languages whose text is kept
Kept(auto_map) == {l \in Elems(languages) : auto_map[l] = "text"}

\* lines 54-81: the caption sub-call returns
CaptionsReturn ==
  /\ pc = "captions"
  /\ UNCHANGED history
  /\ \E auto_map \in CaptionMaps(video_id) :
       /\ result' = Put(CaptionsReset(result), "automatic_captions", Kept(auto_map))
       /\ tr' = Append(tr, Call("captions",
                                get_current_cookie(cookie_files, current_index),
                                "maps", 0, Kept(auto_map)))
  /\ pc' = "project"
  /\ UNCHANGED <<manager, seqFile, disk, hub, gate, run, exc, loop, data, attempt,
                 max_attempts, info, index0>>

\* lines 54-65, 134-174: the caption sub-call raises
CaptionsRaise ==
  /\ pc = "captions"
  /\ UNCHANGED history
  /\ video_id \in Faulty
  /\ \E k \in 1..Len(CaptionErrors) :
       /\ tr' = Append(tr, Call("captions",
                                get_current_cookie(cookie_files, current_index),
                                "raise", k, {}))
       /\ Except(CaptionErrors[k], CaptionsReset(result))
  /\ UNCHANGED <<cookie_files, threads, seqFile, disk, hub, gate, run, exc, loop,
                 max_attempts, info, index0>>

\* lines 83-129: the projection of info
Projected(res, inf) ==
  LET r1 == Put(res, "chapters", inf.serial)
      r2 == Put(r1, "formats", inf.serial)
      r3 == Put(r2, "thumbnails_ytdlp", inf.serial)
      r4 == IF inf.duration # 0 THEN Put(r3, "duration_seconds", inf.duration) ELSE r3
  IN  Put(r4, "timings_ytdlp", inf.serial)

\* lines 83-132
Project ==
  /\ pc = "project"
  /\ UNCHANGED history
  /\ result' = Projected(result, info)
  /\ data' = Projected(result, info)
  /\ pc' = "returned"
  /\ UNCHANGED <<manager, seqFile, disk, hub, gate, run, exc, loop, attempt,
                 max_attempts, info, tr, index0>>

(***************************************************************************)
(* The next process.                                                       *)
(***************************************************************************)
\* main() has ended; the program is started again. Module state is new
\* (lines 24, 31-32), the files stay, sequence.json may have gained a video
NewRun ==
  /\ pc \in {"done", "crashed"}
  /\ run < MaxRuns
  /\ saves' = <<>>
  /\ UNCHANGED fetched
  /\ run' = run + 1
  /\ pc' = "load_progress"
  /\ exc' = "none"
  /\ current_index' = 0
  /\ lcpt' = None
  /\ lcdt' = None
  /\ seqFile' \in {seqFile, Grown(seqFile)}
  /\ processed_ids' = {}
  /\ current_data_file' = DataFile(0, 0)
  /\ current_data' = NewShard
  /\ video_ids_to_process' = <<>>
  /\ i' = 0
  /\ processed_count' = 0
  /\ UNCHANGED <<cookie_files, threads, disk, hub, clock, data, fetch>>

Next ==
  \/ LoadProgress \/ OpenShard \/ Plan \/ FinishData \/ FinishProgress
  \/ BeginFetch \/ EndLoop \/ Store
  \/ CheckpointProgress \/ NoCheckpoint \/ CheckpointData
  \/ SizeBelowLimit \/ SizeLimit \/ SwitchShard
  \/ ExtractReturns \/ ExtractNothing \/ ExtractRaises
  \/ CaptionsReturn \/ CaptionsRaise \/ Project
  \/ NewRun

Spec == Init /\ [][Next]_vars

\* the same program, started also with a whole shard of videos to fetch
SpecLong == (Init \/ InitLong) /\ [][Next]_vars

(***************************************************************************)
(* CookieRotationManager called on its own: by one caller, any calls in    *)
(* any order, and by threads that are in rotate_to_next at the same time.  *)
(***************************************************************************)
\* the rest of the program has not started
NoProgram ==
  /\ seqFile = NoSequenceFile
  /\ progressFile = NoProgressFile
  /\ tmpDir = EmptyDict
  /\ remote = EmptyDict
  /\ uploads = <<>>
  /\ clock = Epoch
  /\ lcpt = None
  /\ lcdt = None
  /\ run = 1
  /\ exc = "none"
  /\ processed_ids = {}
  /\ current_data_file = DataFile(0, 0)
  /\ current_data = NewShard
  /\ video_ids_to_process = <<>>
  /\ i = 0
  /\ processed_count = 0
  /\ data = EmptyDict
  /\ attempt = 0
  /\ max_attempts = 0
  /\ result = EmptyDict
  /\ info = NoInfo
  /\ tr = <<>>
  /\ saves = <<>>
  /\ fetched = EmptyDict

program == <<seqFile, disk, hub, gate, run, pc, exc, loop, data, attempt,
             max_attempts, result, info, history>>

\* lines 13-34: a manager just built, and its caller
InitCalls ==
  /\ cookie_files \in {LoadCookieFiles(n) : n \in 0..ManagerCookies}
  /\ current_index = 0
  /\ index0 = 0
  /\ threads = <<>>
  /\ pc = "calls"
  /\ NoProgram

\* a call of the manager as its caller sees it: what it returned, and
\* current_index before and after
ManagerCall(op, ret, after) ==
  [op |-> op, ret |-> ret, before |-> current_index, after |-> after]

\* lines 52-62
GetCurrentCookieCall ==
  /\ pc = "calls"
  /\ Len(tr) < MaxCalls
  /\ tr' = Append(tr, ManagerCall("get_current_cookie",
                                  get_current_cookie(cookie_files, current_index),
                                  current_index))
  /\ UNCHANGED <<manager, index0, program>>

\* lines 64-83
RotateToNextCall ==
  /\ pc = "calls"
  /\ Len(tr) < MaxCalls
  /\ current_index' = NextIndex(cookie_files, current_index)
  /\ tr' = Append(tr, ManagerCall("rotate_to_next",
                                  rotate_to_next(cookie_files, current_index),
                                  current_index'))
  /\ UNCHANGED <<cookie_files, threads, index0, program>>

\* lines 85-127: the answer is left out of the record
IsBlockedErrorCall ==
  /\ pc = "calls"
  /\ Len(tr) < MaxCalls
  /\ \E k \in 1..Len(ExtractErrors) :
       /\ is_blocked_error(ExtractErrors[k]) \in BOOLEAN
       /\ tr' = Append(tr, ManagerCall("is_blocked_error", None, current_index))
  /\ UNCHANGED <<manager, index0, program>>

\* a thread that has called rotate_to_next and has run none of it
Called == [at |-> "call", index |-> 0, ret |-> None]

\* a manager that has been rotated to some position, and the threads that
\* call rotate_to_next on it
InitThreads ==
  /\ cookie_files \in {LoadCookieFiles(n) : n \in 0..ManagerCookies}
  /\ current_index \in 0..Max({0, Len(cookie_files) - 1})
  /\ index0 = current_index
  /\ threads \in {[t \in 1..k |-> Called] : k \in 1..MaxThreads}
  /\ pc = "threads"
  /\ NoProgram

\* lines 72-76: the test of cookie_files, and self.current_index read
ThreadRead(t) ==
  /\ pc = "threads"
  /\ threads[t].at = "call"
  /\ threads' =
       [threads EXCEPT ![t] =
          IF cookie_files = <<>>
          THEN [at |-> "done", index |-> 0, ret |-> None]
          ELSE [at |-> "read", index |-> current_index, ret |-> None]]
  /\ UNCHANGED <<cookie_files, current_index, tr, index0, program>>

\* line 76: self.current_index stored
ThreadWrite(t) ==
  /\ pc = "threads"
  /\ threads[t].at = "read"
  /\ current_index' = (threads[t].index + 1) % Len(cookie_files)
  /\ threads' = [threads EXCEPT ![t].at = "written"]
  /\ UNCHANGED <<cookie_files, tr, index0, program>>

\* lines 77-83: self.cookie_files[self.current_index] read and returned
ThreadReturn(t) ==
  /\ pc = "threads"
  /\ threads[t].at = "written"
  /\ threads' =
       [threads EXCEPT ![t] =
          [at |-> "done", index |-> @.index,
           ret |-> get_current_cookie(cookie_files, current_index)]]
  /\ UNCHANGED <<cookie_files, current_index, tr, index0, program>>

NextManager ==
  \/ GetCurrentCookieCall \/ RotateToNextCall \/ IsBlockedErrorCall
  \/ \E t \in DOMAIN threads : ThreadRead(t)
  \/ \E t \in DOMAIN threads : ThreadWrite(t)
  \/ \E t \in DOMAIN threads : ThreadReturn(t)

\* the manager on its own
SpecManager == (InitCalls \/ InitThreads) /\ [][NextManager]_vars

\* the program, and the manager on its own
SpecAll == (Init \/ InitCalls \/ InitThreads) /\ [][Next \/ NextManager]_vars


(***************************************************************************)
(* The projection of the formats, on its own.                              *)
(***************************************************************************)
\* extract_info has returned a record with a formats list; nothing of the
\* rest of the program is followed
InitFormats ==
  /\ cookie_files = <<>>
  /\ current_index = 0
  /\ index0 = 0
  /\ threads = <<>>
  /\ pc = "formats"
  /\ seqFile = NoSequenceFile
  /\ progressFile = NoProgressFile
  /\ tmpDir = EmptyDict
  /\ remote = EmptyDict
  /\ uploads = <<>>
  /\ clock = Epoch
  /\ lcpt = None
  /\ lcdt = None
  /\ run = 1
  /\ exc = "none"
  /\ processed_ids = {}
  /\ current_data_file = DataFile(0, 0)
  /\ current_data = NewShard
  /\ video_ids_to_process = <<>>
  /\ i = 0
  /\ processed_count = 0
  /\ data = EmptyDict
  /\ attempt = 0
  /\ max_attempts = 1
  /\ result = EmptyDict
  /\ \E f \in FormatLists : info = [serial |-> 1, duration |-> 0, formats |-> f]
  /\ tr = <<>>
  /\ saves = <<>>
  /\ fetched = EmptyDict

\* lines 89-117
ProjectFormats ==
  /\ pc = "formats"
  /\ result' = Put(result, "formats", FormatProjection(info.formats))
  /\ pc' = "projected"
  /\ UNCHANGED <<manager, seqFile, disk, hub, gate, run, exc, loop, data, attempt,
                 max_attempts, info, tr, index0, history>>

SpecFormats == InitFormats /\ [][ProjectFormats]_vars

(***************************************************************************)
(* The process killed.                                                     *)
(***************************************************************************)
\* the process is killed between two steps (SIGKILL, SIGTERM, power loss;
\* signal_handler is registered for no signal): nothing of lines 385-393
\* runs, the files stay as they are
Kill ==
  /\ pc \in {"load_progress", "open_shard", "plan", "loop", "extract", "captions",
             "project", "returned", "checkpoint", "checkpoint_data", "size_check",
             "switch", "finish", "finish_progress"}
  \* a process is started after it
  /\ run < MaxRuns
  /\ pc' = "crashed"
  /\ exc' = "killed"
  /\ UNCHANGED <<manager, seqFile, disk, hub, gate, run, loop, data, fetch, history>>

\* the worlds the killed program starts in: a batch of videos to fetch and
\* an empty repository, or one video and a repository whose shard it fills
KillWorlds ==
  {<<SeqBatch, NoProgressFile, EmptyDict>>,
   <<SequenceFile(<<Group(1, <<1>>)>>), NoProgressFile, RemoteStore(DATA_FILE_SIZE - 1)>>}

InitKill ==
  /\ cookie_files \in {LoadCookieFiles(n) : n \in 0..MaxCookies}
  /\ current_index = 0
  /\ threads = <<>>
  /\ \E w \in KillWorlds : seqFile = w[1] /\ progressFile = w[2] /\ remote = w[3]
  /\ tmpDir = EmptyDict
  /\ uploads = <<>>
  /\ clock = Epoch
  /\ lcpt = None
  /\ lcdt = None
  /\ run = 1
  /\ pc = "load_progress"
  /\ exc = "none"
  /\ Locals

\* the program, killed at any point and started again
SpecKill == InitKill /\ [][Next \/ Kill]_vars
(***************************************************************************)
(* Properties.                                                             *)
(***************************************************************************)
InFetch == pc \in {"extract", "captions", "project", "returned"}

IsExtract(c) == c.op = "extract_info"

\* the error a call raised
Raised(c) == IF IsExtract(c) THEN ExtractErrors[c.err] ELSE CaptionErrors[c.err]

\* the class of section 4.2 an error falls in
ErrorClass(e) ==
  IF is_unavailable(e) THEN "unavailable"
  ELSE IF is_timeout(e) THEN "timeout"
  ELSE IF is_blocked_error(e) THEN "blocked"
  ELSE "other"

RetryClass(e) == ErrorClass(e) \in {"timeout", "blocked"}

ExtractCalls == {k \in 1..Len(tr) : IsExtract(tr[k])}

\* max(1, N)
AttemptBound == IF Len(cookie_files) > 1 THEN Len(cookie_files) ELSE 1

\* the cookie after c in the rotation
CookieAfter(c) == IF cookie_files = <<>> THEN None ELSE cookie_files[(c % Len(cookie_files)) + 1]

\* the cookie the manager holds now
CurrentCookie == get_current_cookie(cookie_files, current_index)

\* C1: a fetch makes at most max(1, N) calls of extract_info and its attempt
\* counter stays below that bound, so that it returns; a Timeout or Blocked
\* error of extract_info on an attempt that is not the last is followed by
\* the next attempt with the next cookie; and a fetch whose max(1, N)
\* attempts all ended in a Timeout or Blocked error returns the empty result.
C1_BoundedRetry ==
  InFetch =>
    /\ Cardinality(ExtractCalls) <= AttemptBound
    /\ attempt < AttemptBound
    /\ \A k \in ExtractCalls :
         (tr[k].out = "raise" /\ RetryClass(Raised(tr[k])) /\ tr[k].attempt < AttemptBound - 1)
           => IF k = Len(tr)
              THEN pc = "extract" /\ attempt = tr[k].attempt + 1
                   /\ CurrentCookie = CookieAfter(tr[k].cookie)
              ELSE IsExtract(tr[k + 1]) /\ tr[k + 1].attempt = tr[k].attempt + 1
                   /\ tr[k + 1].cookie = CookieAfter(tr[k].cookie)
    /\ ( /\ pc = "returned"
         /\ Len(tr) = AttemptBound
         /\ \A k \in 1..Len(tr) :
              IsExtract(tr[k]) /\ tr[k].out = "raise" /\ RetryClass(Raised(tr[k])) )
       => data = EmptyDict

\* C1, its case: two cookies, both attempts ended in a Timeout or Blocked
\* error, the fetch has returned
C1_Witness ==
  /\ pc = "returned"
  /\ Len(cookie_files) = 2
  /\ Len(tr) = 2
  /\ \A k \in 1..2 : IsExtract(tr[k]) /\ tr[k].out = "raise" /\ RetryClass(Raised(tr[k]))
  /\ tr[1].cookie # tr[2].cookie
  /\ data = EmptyDict

\* C2: after extract_info raised an error with an Unavailable keyword in its
\* message, on whatever attempt and whatever else the message holds, the
\* fetch has returned the empty result, no call followed and the manager
\* holds the cookie the call was made with.
C2_UnavailableReturns ==
  \A k \in ExtractCalls :
    (tr[k].out = "raise" /\ is_unavailable(Raised(tr[k])))
      => /\ k = Len(tr)
         /\ pc = "returned"
         /\ data = EmptyDict
         /\ attempt = tr[k].attempt
         /\ CurrentCookie = tr[k].cookie

\* C2, its case: on the second attempt, with a second cookie to rotate to
\* had one been left, the message also matches a timeout keyword and 403
C2_Witness ==
  /\ pc = "returned"
  /\ Len(cookie_files) = 2
  /\ Len(tr) = 2
  /\ IsExtract(tr[2]) /\ tr[2].out = "raise"
  /\ is_unavailable(Raised(tr[2]))
  /\ is_timeout(Raised(tr[2]))
  /\ is_blocked_error(Raised(tr[2]))

\* C3: after extract_info raised an error that is neither Unavailable nor
\* Timeout nor Blocked, on whatever attempt, the fetch has returned the
\* empty result, no call followed and the manager holds the cookie the call
\* was made with.
C3_OtherReturns ==
  \A k \in ExtractCalls :
    (tr[k].out = "raise" /\ ErrorClass(Raised(tr[k])) = "other")
      => /\ k = Len(tr)
         /\ pc = "returned"
         /\ data = EmptyDict
         /\ attempt = tr[k].attempt
         /\ CurrentCookie = tr[k].cookie

\* C3, its case: an Other error on the first attempt of two
C3_Witness ==
  /\ pc = "returned"
  /\ Len(cookie_files) = 2
  /\ Len(tr) = 1
  /\ tr[1].out = "raise"
  /\ tr[1].attempt = 0
  /\ ErrorClass(Raised(tr[1])) = "other"

\* C4: once extract_info has returned a record, whatever the caption
\* sub-call does, the fetch returns a record, with the languages the
\* sub-call gave text for, and neither retries nor rotates.
C4_CaptionFailureKeepsVideo ==
  \A k \in 1..Len(tr) :
    tr[k].op = "captions"
      => /\ k = Len(tr)
         /\ pc \in {"project", "returned"}
         /\ CurrentCookie = tr[k].cookie
         /\ pc = "returned"
              => Truthy(data) /\ data["automatic_captions"] = tr[k].kept

Fields ==
  {"webpage_url", "age_limit", "subtitles", "automatic_captions", "chapters",
   "formats", "thumbnails_ytdlp", "duration_seconds", "timings_ytdlp"}

\* a record with every projected field, all taken from one answer of
\* extract_info (duration_seconds only if the answer had a duration)
FullRecord(r) ==
  /\ DOMAIN r \in {Fields, Fields \ {"duration_seconds"}}
  /\ \A f \in {"age_limit", "chapters", "formats", "thumbnails_ytdlp", "timings_ytdlp"} :
       r[f] = r["webpage_url"]
  /\ r["webpage_url"] >= 1
  /\ r["subtitles"] = {}
  /\ r["automatic_captions"] \subseteq Elems(languages)

\* every shard there is: the active one, the files of TMP_DIR, the remote files
AllShards ==
  {current_data} \cup {tmpDir[f] : f \in DOMAIN tmpDir} \cup {remote[f] : f \in DOMAIN remote}

\* C5: every record held under a video identifier, in the active shard and
\* in every shard file, is fully populated, and what a fetch returns is the
\* empty result or a fully populated record.
C5_NoPartialRecord ==
  /\ \A sh \in AllShards : \A v \in DOMAIN sh.recs : FullRecord(sh.recs[v])
  /\ pc = "returned" => (data = EmptyDict \/ FullRecord(data))

\* C5, its case: a shard file holds a record built by the second attempt of
\* a fetch, after a first attempt that failed
C5_Witness ==
  \E f \in DOMAIN tmpDir : \E v \in DOMAIN tmpDir[f].recs :
    tmpDir[f].recs[v]["webpage_url"] = 2

RunLoop ==
  pc \in {"loop", "extract", "captions", "project", "returned", "checkpoint",
          "checkpoint_data", "size_check", "switch"}

\* C6: in the loop of process_videos the identifiers of the queue that are in
\* processed_ids are those of the videos stored so far; processed_ids
\* changes only in the step that follows the return of a fetch, which adds
\* the identifier of that video, whether the result is empty or not, and
\* puts the result under that identifier in the active shard if and only if
\* it is not empty; when the loop has ended every pending identifier is in.
C6_Inv ==
  /\ RunLoop =>
       \A k \in 1..Len(video_ids_to_process) :
         video_ids_to_process[k] \in processed_ids
           <=> \E j \in 1..processed_count :
                 video_ids_to_process[j] = video_ids_to_process[k]
  /\ pc \in {"finish", "finish_progress"} =>
       Elems(video_ids_to_process) \subseteq processed_ids

C6_Step ==
  (RunLoop /\ (processed_ids' # processed_ids \/ pc = "returned"))
    => /\ pc = "returned"
       /\ processed_ids' = processed_ids \cup {video_id}
       /\ processed_count' = processed_count + 1
       /\ IF data # EmptyDict
          THEN current_data'.recs = Put(current_data.recs, video_id, data)
          ELSE current_data' = current_data

C6_ProcessedOnce == [](C6_Inv) /\ [][C6_Step]_vars

\* C6, its case: a video whose fetch returned the empty result is in
\* processed_ids and not in the shard
C6_Witness ==
  /\ pc = "checkpoint"
  /\ video_id \in processed_ids
  /\ video_id \notin DOMAIN current_data.recs

ProgressIds(file) == Elems(file.processed_video_ids)

\* C7: a progress file, once there, stays and every write of it keeps the
\* identifiers it held; processed_ids never loses an identifier while a
\* process runs.
C7_Step ==
  /\ progressFile.exists =>
       progressFile'.exists /\ ProgressIds(progressFile) \subseteq ProgressIds(progressFile')
  /\ pc \notin {"done", "crashed"} => processed_ids \subseteq processed_ids'

C8_ShardBound ==
  /\ VideoCount(current_data) <= DATA_FILE_SIZE
  /\ pc \in {"loop", "extract", "captions", "project", "returned"} =>
       VideoCount(current_data) < DATA_FILE_SIZE
  /\ pc = "switch" =>
       /\ current_data_file \in DOMAIN tmpDir
       /\ tmpDir[current_data_file] = current_data

\* C8, its case: an insertion has filled the shard and it has been saved
C8_Witness ==
  /\ pc = "switch"
  /\ VideoCount(current_data) = DATA_FILE_SIZE
  /\ current_data.recs # EmptyDict
  /\ tmpDir[current_data_file] = current_data

SaveStep ==
  \/ pc = "checkpoint" /\ pc' = "checkpoint_data"
  \/ pc = "finish_progress" /\ pc' = "done"

\* C10: every save_progress writes the file; the first of a process uploads
\* nothing and sets lcpt to its time; an upload is made only by a save at
\* least UploadInterval after lcpt, and sets lcpt to the time of that save;
\* no two uploads are less than UploadInterval apart.
C10_Inv ==
  \A j, k \in 1..Len(uploads) : j < k => uploads[k] - uploads[j] >= UploadInterval

C10_Step ==
  /\ SaveStep =>
       /\ progressFile' = ProgressPayload(processed_ids)
       /\ lcpt = None => (uploads' = uploads /\ lcpt' = clock')
       /\ uploads' # uploads =>
            /\ lcpt # None
            /\ clock' - lcpt >= UploadInterval
            /\ lcpt' = clock'
            /\ uploads' = Append(uploads, clock')
  /\ ~ SaveStep => uploads' = uploads

C10_UploadGate == [](C10_Inv) /\ [][C10_Step]_vars

\* C10, its case: one process has uploaded the progress file twice
C10_Witness ==
  /\ run = 1
  /\ Len(uploads) = 2

\* the last shard file of the repository is in TMP_DIR and has room
Reusable(tmp) ==
  /\ DOMAIN remote # {}
  /\ LastFile(DOMAIN remote) \in DOMAIN tmp
  /\ VideoCount(tmp[LastFile(DOMAIN remote)]) < DATA_FILE_SIZE

\* C9 as stated: the shard opened at a rollover starts empty.
C9_NewShardEmpty ==
  [][pc = "switch" /\ pc' = "loop" => current_data' = NewShard]_vars

\* C9: the size check that finds DATA_FILE_SIZE videos in the active shard
\* comes after the shard is saved to its file; the shard opened then holds
\* fewer than DATA_FILE_SIZE videos: it is the copy in TMP_DIR of the last
\* shard file of the repository when that copy has room, and otherwise a
\* new shard with no video; when the listing of the repository raises, no
\* shard is opened and the process ends.
C9_Step ==
  pc = "switch" =>
    /\ VideoCount(current_data) = DATA_FILE_SIZE
    /\ tmpDir[current_data_file] = current_data
    /\ pc' = "loop" =>
         /\ VideoCount(current_data') < DATA_FILE_SIZE
         /\ IF Reusable(tmpDir')
            THEN /\ current_data_file' = LastFile(DOMAIN remote)
                 /\ current_data' = tmpDir'[current_data_file']
            ELSE /\ current_data_file' \notin DOMAIN tmpDir'
                 /\ current_data' = NewShard
    /\ pc' # "loop" => pc' = "crashed" /\ exc' = "list_repo_files"

C9_Rollover == [][C9_Step]_vars

\* C9, its case: the shard opened at a rollover holds videos
C9_Witness ==
  /\ pc = "loop"
  /\ processed_count = DATA_FILE_SIZE
  /\ i = DATA_FILE_SIZE
  /\ VideoCount(current_data) > 0

\* a step that calls save_data_file
DataSaveStep ==
  \/ pc = "checkpoint_data"
  \/ pc = "finish" /\ VideoCount(current_data) > 0
  \/ pc = "size_check" /\ pc' = "switch" /\ processed_count % batch_size # 0

\* C11: the first save_data_file of a process sets lcdt, the time of the
\* last upload of the shard, and a save_data_file made more than
\* UploadInterval after lcdt puts the shard file in the remote repository
\* and sets lcdt to its time.
C11_ShardGate ==
  [][DataSaveStep =>
       /\ lcdt = None => lcdt' # None
       /\ (lcdt # None /\ clock' - lcdt > UploadInterval) =>
            /\ current_data_file \in DOMAIN remote'
            /\ remote'[current_data_file] = current_data'
            /\ lcdt' = clock']_vars

\* C12: no failure of the remote repository reaches the top level: a
\* process ends with an error only when sequence.json is missing.
C12_RemoteFailureSwallowed == pc = "crashed" => exc = "raise"

RECURSIVE Total(_)
\* the identifiers a set of groups lists
Total(G) ==
  IF G = {} THEN 0
  ELSE LET g == CHOOSE x \in G : TRUE IN Len(g.ids) + Total(G \ {g})

\* sequence.json flattened: the groups by ascending timestamp, the
\* identifiers of a group as listed
Flattened(file) ==
  LET G == Elems(file.groups)
      Before(g) == Total({h \in G : h.ts < g.ts})
  IN  [k \in 1..Total(G) |->
         LET g == CHOOSE x \in G : Before(x) < k /\ k <= Before(x) + Len(x.ids)
         IN  g.ids[k - Before(g)]]

\* C13: the queue process_videos gets is sequence.json flattened, less the
\* identifiers of processed_ids; with every identifier of the sequence in
\* processed_ids the process fetches nothing; the loop fetches the entry at
\* position i + 1 after i videos have been finished, and moves to the next
\* position only from the size check that ends an iteration.
C13_Step ==
  /\ (pc = "plan" /\ seqFile.exists) =>
       LET queue == SelectSeq(Flattened(seqFile), LAMBDA v : v \notin processed_ids)
       IN  IF queue = <<>>
           THEN pc' = "done"
           ELSE pc' = "loop" /\ video_ids_to_process' = queue /\ i' = 0
  /\ pc # "plan" /\ pc' \notin {"load_progress"} =>
       video_ids_to_process' = video_ids_to_process
  /\ (pc = "loop" /\ pc' = "extract") =>
       i = processed_count /\ i < Len(video_ids_to_process)
  /\ (i' # i /\ pc' # "load_progress") =>
       i' = i + 1 /\ pc \in {"size_check", "switch"} /\ pc' = "loop"
            /\ processed_count = i + 1

C13_QueueOrder == [][C13_Step]_vars

\* C13, its case: the group sequence.json lists first has the later
\* timestamp, and its video is fetched after the 19 of the other group
C13_Witness ==
  /\ pc = "extract"
  /\ i = batch_size - 1
  /\ video_id = 1
  /\ seqFile.groups[1].ids = <<1>>
  /\ seqFile.groups[1].ts > seqFile.groups[2].ts

\* C14: is_blocked_error is true of every error whose message contains
\* "429", whatever its type and the rest of the message.
C14_Blocks429 ==
  \A k \in 1..Len(tr) :
    (tr[k].out = "raise" /\ Contains(Lower(Raised(tr[k]).msg), <<"4", "2", "9">>))
      => is_blocked_error(Raised(tr[k]))

\* the calls of rotate_to_next among the calls made on the manager
Rotations == {k \in 1..Len(tr) : tr[k].op = "rotate_to_next"}

\* how many of them from call a to call b
RotationsIn(a, b) == Cardinality({k \in Rotations : a <= k /\ k <= b})

\* C15: on a manager with N >= 1 cookie files, whatever current_index is
\* when a call of rotate_to_next is made, the k-th call of rotate_to_next
\* counted from that one leaves current_index at (start + k) mod N and
\* returns the file at that position, so that the N-th brings current_index
\* and the current cookie back to what they were.
C15_Cyclic ==
  (pc = "calls" /\ cookie_files # <<>>) =>
    LET N == Len(cookie_files)
    IN  \A a, b \in Rotations :
          a <= b =>
            LET k == RotationsIn(a, b)
                start == tr[a].before
            IN  /\ tr[b].after = (start + k) % N
                /\ tr[b].ret = cookie_files[((start + k) % N) + 1]
                /\ k = N =>
                     /\ tr[b].after = start
                     /\ get_current_cookie(cookie_files, tr[b].after)
                          = get_current_cookie(cookie_files, start)

\* C15, its case: ManagerCookies files, and as many rotations made from a
\* position that is not the first
C15_Witness ==
  /\ pc = "calls"
  /\ Len(cookie_files) = ManagerCookies
  /\ \E a, b \in Rotations :
       /\ a <= b
       /\ RotationsIn(a, b) = ManagerCookies
       /\ tr[a].before > 0
       /\ current_index = tr[a].before

\* C16: with no cookie file, every call of get_current_cookie and of
\* rotate_to_next returns None, after any calls and in any thread, and
\* leaves current_index alone; a fetch has max_attempts = 1, calls
\* extract_info once, without a cookie, and when that call, or the caption
\* sub-call after it, raises an error, Timeout and Blocked included, the
\* fetch has returned the empty result and made no other call.
C16_EmptySet ==
  cookie_files = <<>> =>
    /\ current_index = 0
    /\ pc = "calls" =>
         \A k \in 1..Len(tr) : tr[k].ret = None /\ tr[k].after = tr[k].before
    /\ pc = "threads" =>
         \A t \in DOMAIN threads : threads[t].ret = None /\ threads[t].at # "read"
    /\ InFetch =>
         /\ max_attempts = 1
         /\ attempt = 0
         /\ Cardinality(ExtractCalls) <= 1
         /\ pc # "extract" => Cardinality(ExtractCalls) = 1
         /\ \A k \in 1..Len(tr) :
              /\ tr[k].cookie = None
              /\ tr[k].out = "raise" =>
                   k = Len(tr) /\ pc = "returned" /\ data = EmptyDict

\* C16, its case: no cookie file, extract_info raised a Timeout or Blocked
\* error and the fetch has returned
C16_Witness ==
  /\ cookie_files = <<>>
  /\ pc = "returned"
  /\ Len(tr) = 1
  /\ tr[1].out = "raise"
  /\ RetryClass(Raised(tr[1]))
  /\ data = EmptyDict

\* every thread has returned from rotate_to_next
AllReturned == \A t \in DOMAIN threads : threads[t].at = "done"

\* C17: when the k threads that called rotate_to_next on a manager with
\* N >= 1 cookie files have all returned, current_index is
\* (start + k) mod N, and every thread got a file of the set.
C17_NoLostRotation ==
  (pc = "threads" /\ cookie_files # <<>> /\ AllReturned) =>
    /\ current_index = (index0 + Len(threads)) % Len(cookie_files)
    /\ \A t \in DOMAIN threads : threads[t].ret \in Elems(cookie_files)

\* the calls of the running fetch that raised a Timeout or Blocked error
\* with attempts left
RetriedCalls ==
  {k \in 1..Len(tr) :
     /\ tr[k].out = "raise"
     /\ RetryClass(Raised(tr[k]))
     /\ tr[k].attempt < max_attempts - 1}

\* the index r rotations after index
Rotated(index, r) ==
  IF cookie_files = <<>> THEN index ELSE (index + r) % Len(cookie_files)

\* C18: in a fetch, current_index is the index the fetch began with moved
\* on by one, cyclically, for every call that raised a Timeout or Blocked
\* error with attempts left, and the attempt after such a call is made with
\* the cookie at that index; outside these rotations current_index changes
\* only when a new process starts, so that a fetch begins with the index
\* the fetch before it ended with.
C18_Inv ==
  InFetch =>
    /\ current_index = Rotated(index0, Cardinality(RetriedCalls))
    /\ \A k \in RetriedCalls :
         /\ tr[k].attempt < attempt \/ (k = Len(tr) /\ pc = "returned")
         /\ k < Len(tr) =>
              /\ IsExtract(tr[k + 1])
              /\ tr[k + 1].attempt = tr[k].attempt + 1
              /\ tr[k + 1].cookie =
                   get_current_cookie(cookie_files, Rotated(index0, tr[k + 1].attempt))

C18_Step ==
  /\ (pc \notin {"calls", "threads"} /\ current_index' # current_index) =>
       \/ pc' = "load_progress"
       \/ /\ pc \in {"extract", "captions"}
          /\ pc' = "extract"
          /\ attempt' = attempt + 1
          /\ current_index' = Rotated(current_index, 1)
  /\ (pc = "loop" /\ pc' = "extract") => index0' = current_index

C18_CursorAdvances == [](C18_Inv) /\ [][C18_Step]_vars

\* C18, its case: two cookie files, extract_info raised HTTP Error 403 on
\* attempt 0 and returned a record on attempt 1, the fetch has returned the
\* record and current_index is 1
C18_Witness ==
  /\ pc = "returned"
  /\ Len(cookie_files) = 2
  /\ index0 = 0
  /\ Len(tr) = 3
  /\ IsExtract(tr[1]) /\ tr[1].out = "raise" /\ tr[1].err = 2
  /\ IsExtract(tr[2]) /\ tr[2].out = "info" /\ tr[2].cookie = cookie_files[2]
  /\ Truthy(data)
  /\ current_index = 1

\* the call a step adds to the calls made
Added == tr'[Len(tr')]

\* C19: cookie_files never changes; a call of get_current_cookie or of
\* is_blocked_error leaves current_index as it was, and in a manager shared
\* by threads only the store of rotate_to_next changes it; in a fetch, a
\* call that returns a record, returns nothing or raises an Unavailable or
\* Other error leaves current_index as it was, and so does the step that
\* returns the result, so that a fetch that ends with no rotation ends with
\* the index it began with; the rest of the program changes current_index
\* only by starting a new process; with cookie files loaded,
\* 0 <= current_index < N.
C19_Inv ==
  /\ cookie_files # <<>> => current_index \in 0..(Len(cookie_files) - 1)
  /\ (pc = "returned" /\ RetriedCalls = {}) => current_index = index0

C19_Step ==
  /\ cookie_files' = cookie_files
  /\ (pc = "calls" /\ Len(tr') > Len(tr) /\ Added.op # "rotate_to_next") =>
       current_index' = current_index
  /\ (pc = "threads" /\ current_index' # current_index) =>
       \E t \in DOMAIN threads :
         threads[t].at = "read" /\ threads'[t].at = "written"
  /\ (/\ pc \in {"extract", "captions"}
      /\ Len(tr') > Len(tr)
      /\ \/ Added.out \in {"info", "none", "maps"}
         \/ /\ Added.out = "raise"
            /\ ErrorClass(Raised(Added)) \in {"unavailable", "other"}) =>
       current_index' = current_index
  /\ (pc \in {"extract", "captions", "project"} /\ pc' = "returned"
      /\ ~ (Len(tr') > Len(tr) /\ Added.out = "raise" /\ RetryClass(Raised(Added)))) =>
       current_index' = current_index
  /\ (pc \notin {"calls", "threads", "extract", "captions"}
      /\ current_index' # current_index) => pc' = "load_progress"

C19_CursorFrame == [](C19_Inv) /\ [][C19_Step]_vars

\* C19, its case: with two cookie files, a fetch that began with the second
\* one has ended by an Other error and current_index is still 1
C19_Witness ==
  /\ pc = "returned"
  /\ Len(cookie_files) = 2
  /\ index0 = 1
  /\ Len(tr) = 1
  /\ tr[1].out = "raise"
  /\ ErrorClass(Raised(tr[1])) = "other"
  /\ current_index = 1

CaptionCalls == {k \in 1..Len(tr) : tr[k].op = "captions"}

\* C20: in the fetch of a video the caption sub-call is made at most once,
\* right after an extract_info call that returned a record and with the
\* cookie of that call, and a fetch whose last extract_info call raised or
\* returned nothing has made no caption sub-call.
C20_CaptionsOnce ==
  InFetch =>
    /\ Cardinality(CaptionCalls) <= 1
    /\ \A k \in CaptionCalls :
         /\ k > 1
         /\ IsExtract(tr[k - 1])
         /\ tr[k - 1].out = "info"
         /\ tr[k].cookie = tr[k - 1].cookie
    /\ (tr # <<>> /\ IsExtract(tr[Len(tr)]) /\ tr[Len(tr)].out # "info") =>
         CaptionCalls = {}

\* C21: while fetch_from_ytdlp runs for a video, the identifier of that
\* video is not in processed_ids.
C21_NoRefetch == InFetch => video_id \notin processed_ids

\* the files an iteration that has reached its checkpoint has written
CheckpointSaves ==
  IF processed_count % batch_size = 0 THEN <<"progress", "data">> ELSE <<>>

\* C22: an iteration of the loop writes nothing before its checkpoint; at
\* the checkpoint it writes the progress file and then the active shard if
\* processed_count is a multiple of batch_size and nothing otherwise; when
\* the shard has reached DATA_FILE_SIZE videos the iteration has written it
\* exactly once when the next shard is about to be opened, at the checkpoint
\* if processed_count is a multiple of batch_size and after it otherwise;
\* and the two files change in the loop only by these writes.
C22_Inv ==
  /\ pc \in {"extract", "captions", "project", "returned", "checkpoint"} =>
       saves = <<>>
  /\ pc = "checkpoint_data" =>
       /\ processed_count % batch_size = 0
       /\ saves = <<"progress">>
       /\ progressFile = ProgressPayload(processed_ids)
  /\ pc = "size_check" =>
       /\ saves = CheckpointSaves
       /\ saves # <<>> => tmpDir[current_data_file] = current_data
  /\ pc = "switch" =>
       /\ VideoCount(current_data) >= DATA_FILE_SIZE
       /\ saves = IF CheckpointSaves # <<>> THEN CheckpointSaves ELSE <<"data">>
       /\ Cardinality({k \in 1..Len(saves) : saves[k] = "data"}) = 1
       /\ tmpDir[current_data_file] = current_data

C22_Step ==
  RunLoop =>
    /\ progressFile' # progressFile => saves' = Append(saves, "progress")
    /\ (tmpDir' # tmpDir /\ pc # "switch") => saves' = Append(saves, "data")
    /\ saves' = Append(saves, "progress") =>
         progressFile' = ProgressPayload(processed_ids)
    /\ saves' = Append(saves, "data") =>
         tmpDir' = Put(tmpDir, current_data_file, Dumped(current_data))
    /\ (pc = "size_check" /\ pc' = "loop") => saves' = CheckpointSaves
    /\ pc = "switch" => saves' = saves /\ progressFile' = progressFile

C22_Cadence == [](C22_Inv) /\ [][C22_Step]_vars

\* C22, its case: the twentieth video of a run has filled the shard; the
\* checkpoint has written the progress file and the shard, and the shard has
\* not been written a second time
C22_Witness ==
  /\ pc = "switch"
  /\ processed_count = batch_size
  /\ VideoCount(current_data) = DATA_FILE_SIZE
  /\ saves = <<"progress", "data">>

\* the record d of video v is in a shard file of the directory dir
InShardFile(dir, v, d) ==
  \E f \in DOMAIN dir : v \in DOMAIN dir[f].recs /\ dir[f].recs[v] = d

\* what a process that has worked through its queue leaves: the progress
\* file holds processed_ids, every pending identifier is in it, and every
\* record fetched is in a shard file, in TMP_DIR or, for a shard
\* get_next_data_file_path has uploaded and removed, in the repository
NothingUnsaved ==
  /\ progressFile = ProgressPayload(processed_ids)
  /\ Elems(video_ids_to_process) \subseteq processed_ids
  /\ \A v \in DOMAIN fetched :
       InShardFile(tmpDir, v, fetched[v]) \/ InShardFile(remote, v, fetched[v])

\* C23: when a process that had videos to fetch has ended, whether main
\* returned or an exception left it, nothing is left unsaved.
C23_NothingUnsaved ==
  (pc \in {"done", "crashed"} /\ video_ids_to_process # <<>>) => NothingUnsaved

\* the places in info['formats'] of the formats that are not storyboards and
\* have a video codec and an audio codec other than 'none'
Passing ==
  {n \in 1..Len(info.formats) :
     LET fmt == info.formats[n]
     IN  /\ ~ ("format_note" \in DOMAIN fmt /\ fmt["format_note"] = "storyboard")
         /\ \A c \in {"vcodec", "acodec"} :
              c \in DOMAIN fmt /\ fmt[c] \notin {"", "none"}}

\* the place of the j-th of the last m passing formats
PlaceOfLast(m, j) ==
  CHOOSE n \in Passing : Cardinality({p \in Passing : p > n}) = m - j

MinOf(a, b) == IF a < b THEN a ELSE b

\* the nine fields the record keeps of a format, 'none' for one it lacks
Descriptor(fmt) ==
  [k \in {"vcodec", "acodec", "format_id", "fps", "ext", "video_ext",
          "audio_ext", "resolution", "format"} |->
     IF k \in DOMAIN fmt THEN fmt[k] ELSE "none"]

\* C24 as stated: the formats of the record are the last min(2, k) of the k
\* passing formats themselves, in their order.
C24_FormatsKept ==
  pc = "projected" =>
    LET out == result["formats"]
        m == MinOf(2, Cardinality(Passing))
    IN  /\ Len(out) = m
        /\ \A j \in 1..m : out[j] = info.formats[PlaceOfLast(m, j)]

\* C24: the formats of the record are, in their order, the descriptors of
\* the last min(2, k) of the k passing formats, each descriptor holding the
\* nine fields vcodec, acodec, format_id, fps, ext, video_ext, audio_ext,
\* resolution and format of its format, with 'none' for a field the format
\* lacks; no format that fails the filter is described, and there are at
\* most two.
C24_DescriptorsKept ==
  pc = "projected" =>
    LET out == result["formats"]
        m == MinOf(2, Cardinality(Passing))
    IN  /\ Len(out) = m
        /\ Len(out) <= 2
        /\ \A j \in 1..m : out[j] = Descriptor(info.formats[PlaceOfLast(m, j)])
        /\ \A j \in 1..Len(out) :
             \E n \in Passing : out[j]["format_id"] = info.formats[n]["format_id"]

\* C24, its case: of five formats the second and the fourth pass, and the
\* record has the descriptors of these two, which are not the formats
\* themselves
C24_Witness ==
  /\ pc = "projected"
  /\ Len(info.formats) = 5
  /\ Passing = {2, 4}
  /\ result["formats"] = <<Descriptor(info.formats[2]), Descriptor(info.formats[4])>>
  /\ result["formats"] # <<info.formats[2], info.formats[4]>>

\* C25: with cookie files loaded, the extract_info calls of a fetch are its
\* attempts 0, 1, ... in order; the call of attempt a is made with the
\* cookie file a places after, cyclically, the one current_index named when
\* the fetch began; and no two of the calls are made with the same file.
C25_DistinctCookies ==
  (InFetch /\ cookie_files # <<>>) =>
    /\ \A k \in ExtractCalls :
         /\ tr[k].attempt = Cardinality({j \in ExtractCalls : j < k})
         /\ tr[k].cookie = cookie_files[((index0 + tr[k].attempt) % Len(cookie_files)) + 1]
    /\ \A j, k \in ExtractCalls : j # k => tr[j].cookie # tr[k].cookie
    /\ Cardinality(ExtractCalls) <= Len(cookie_files)

\* C25, its case: a fetch that began at the second of two cookie files has
\* made its second extract_info call, with the first file
C25_Witness ==
  /\ InFetch
  /\ Len(cookie_files) = 2
  /\ index0 = 1
  /\ Cardinality(ExtractCalls) = 2
  /\ \E j, k \in ExtractCalls :
       /\ j < k
       /\ tr[j].cookie = cookie_files[2]
       /\ tr[k].cookie = cookie_files[1]

\* C26: when a process that follows another has loaded the progress file
\* and opened its shard, every identifier it has loaded whose fetch had
\* returned a record has that record in a shard file, in TMP_DIR or in the
\* repository.
C26_NoRecordLost ==
  (run > 1 /\ pc = "plan") =>
    \A v \in processed_ids \cap DOMAIN fetched :
      InShardFile(tmpDir, v, fetched[v]) \/ InShardFile(remote, v, fetched[v])

====
